---- MODULE Spec2Model ----
(***************************************************************************)
(* Model of cobsea_libs::CircularArray<ValueType>                          *)
(* (src/cobsea_libs/circular_array.h).                                     *)
(*                                                                         *)
(* A container is a record                                                 *)
(*   data     : the backing store data_array_, a sequence of `capacity`    *)
(*              slots; physical index p is data[p + 1]                     *)
(*   null     : data_array_ == nullptr                                     *)
(*   head, tail, size, capacity : the four size_t members                  *)
(* Every member function is an operator from the container before the call *)
(* to the container after it; the actions apply them to the container      *)
(* under test.                                                             *)
(*                                                                         *)
(* Where the ownership of the backing store matters (SpecOwn), the stores  *)
(* live in `heap` and a container holds the id of its store in place of    *)
(* the data: see the section "Heap and ownership".                         *)
(***************************************************************************)
EXTENDS Integers, Sequences, FiniteSets, TLC

VARIABLES arr, last, pc, pushed, popped, heap, objs

vars == <<arr, last, pc, pushed, popped, heap, objs>>

(***************************************************************************)
(* Bounds of the model.                                                    *)
(***************************************************************************)
\* constructors are called with _capacity in 0..MaxInitCap
MaxInitCap == 3
\* insertions are taken while size_ < MaxSize
MaxSize == 4
\* the round-trip scenarios push at most MaxPush elements
MaxPush == 5
\* in the ownership scenarios constructors are called with _capacity in
\* 0..MaxOwnCap and insertions are taken while size_ < MaxOwnSize
MaxOwnCap == 1
MaxOwnSize == 1

\* ValueType: the container never inspects an element, it only copies it, so
\* two distinct values tell any two slots apart.
Values == {1, 2}

\* A slot of `new ValueType[n]` that was never assigned: its value is
\* indeterminate.
Uninit == 0

\* size_t is a 64-bit unsigned integer and its arithmetic is modulo 2^64.
\* TLC integers stop at 2^31 - 1, so a size_t value v is written as the
\* integer of small magnitude congruent to it modulo 2^64: v itself when v is
\* small, v - 2^64 when v is within reach of 2^64 (the two's-complement
\* reading).  Sums and differences of size_t values are then the integer
\* sums and differences; order and remainder go through SizeLess and
\* SizeMod, which read a negative integer n as the value 2^64 + n.

\* (size_t)0 - 1 = 2^64 - 1 = 18446744073709551615
SizeMax == -1

\* x - 1 in size_t arithmetic
SizeDec(x) == x - 1

\* x + 1 in size_t arithmetic
SizeInc(x) == x + 1

\* x < y between size_t values
SizeLess(x, y) ==
    IF (x >= 0) = (y >= 0) THEN x < y ELSE x >= 0

\* 2^64 % c, by squaring 2^16 twice modulo c
Pow64Mod(c) ==
    LET p16 == 65536 % c
        p32 == (p16 * p16) % c
    IN  (p32 * p32) % c

\* x % c between size_t values (c > 0)
SizeMod(x, c) ==
    IF x >= 0 THEN x % c ELSE (Pow64Mod(c) + c - ((0 - x) % c)) % c

\* the decimal digits of 2^64, most significant first
Pow64Digits == <<1, 8, 4, 4, 6, 7, 4, 4, 0, 7, 3, 7, 0, 9, 5, 5, 1, 6, 1, 6>>

\* digits d less the small amount k, borrowing from the right
RECURSIVE DigitsLess(_, _)
DigitsLess(d, k) ==
    IF k = 0 \/ d = <<>> THEN d
    ELSE LET n    == Len(d)
             low  == d[n] - (k % 10)
             rest == SubSeq(d, 1, n - 1)
         IN  IF low >= 0
             THEN Append(DigitsLess(rest, k \div 10), low)
             ELSE Append(DigitsLess(rest, (k \div 10) + 1), low + 10)

\* the decimal digits of x >= 0, most significant first
RECURSIVE DigitsOf(_)
DigitsOf(x) ==
    IF x < 10 THEN <<x>> ELSE Append(DigitsOf(x \div 10), x % 10)

\* the size_t value x printed in decimal
SizeDigits(x) == IF x >= 0 THEN DigitsOf(x) ELSE DigitsLess(Pow64Digits, 0 - x)

\* a fresh array of n unassigned slots: new ValueType[n]
NewArray(n) == [p \in 1..n |-> Uninit]

\* data_array_[p] = v
Store(data, p, v) == [data EXCEPT ![p + 1] = v]

\* The value a read of slot content x produces: an unassigned slot yields the
\* indeterminate value g the build happens to produce.
Read(x, g) == IF x = Uninit THEN g ELSE x

(***************************************************************************)
(* Observers                                                               *)
(***************************************************************************)
Size(a) == a.size

Capacity(a) == a.capacity

Empty(a) == a.size = 0

\* operator[] : data_array_[(head_ + _index) % capacity_]
At(a, index) == a.data[SizeMod(a.head + index, a.capacity) + 1]

\* Front() that forgets head_: data_array_[0]
FrontIgnoringHead(a) == a.data[1]

Front(a) == a.data[a.head + 1]

\* Back() that reads the tail slot itself: data_array_[tail_]
BackAtTail(a) == a.data[a.tail + 1]

Back(a) == a.data[(IF a.tail # 0 THEN a.tail - 1 ELSE a.capacity - 1) + 1]

(***************************************************************************)
(* iterator: the pair (array_ptr, idx).  array_ptr is the address of a     *)
(* container; mem maps the addresses of the containers that exist to       *)
(* their current members, so a cursor keeps its identity when the          *)
(* container it points to changes, and cursors over two containers with    *)
(* equal members differ.                                                   *)
(***************************************************************************)
Iterator(ptr, idx) == [array_ptr |-> ptr, idx |-> idx]

\* operator==
IterEq(it, other) == it.array_ptr = other.array_ptr /\ it.idx = other.idx

\* operator!=
IterNeq(it, other) == it.array_ptr # other.array_ptr \/ it.idx # other.idx

\* operator* : (*array_ptr)[idx]
Deref(mem, it) == At(mem[it.array_ptr], it.idx)

\* operator++ (prefix)
IterInc(it) == [it EXCEPT !.idx = SizeInc(it.idx)]

\* operator-- (prefix)
IterDec(it) == [it EXCEPT !.idx = SizeDec(it.idx)]

\* begin() of the container at address this
Begin(this) == Iterator(this, 0)

\* end() that returns iterator(this, capacity_)
EndAtCapacity(mem, this) == Iterator(this, mem[this].capacity)

\* end() of the container at address this
End(mem, this) == Iterator(this, mem[this].size)

\* for (it = begin(); it != end(); ++it) acc.push_back(*it);
RECURSIVE Walk(_, _, _, _)
Walk(mem, it, end, acc) ==
    IF IterNeq(it, end)
    THEN Walk(mem, IterInc(it), end, Append(acc, Deref(mem, it)))
    ELSE acc

(***************************************************************************)
(* Constructors                                                            *)
(***************************************************************************)
CircularArrayDefault ==
    [data |-> <<>>, null |-> TRUE, head |-> 0, tail |-> 0, size |-> 0,
     capacity |-> 0]

CircularArraySized(c) ==
    [data |-> NewArray(c), null |-> FALSE, head |-> 0, tail |-> 0,
     size |-> 0, capacity |-> c]

CircularArrayFill(c, v) ==
    [data |-> [p \in 1..c |-> v], null |-> FALSE, head |-> 0,
     tail |-> SizeDec(c), size |-> c, capacity |-> c]

\* copy constructor that copies the physical slots: data_array_[i] =
\* other.data_array_[i]
CircularArrayCopyIgnoringHead(other) ==
    [data |-> [p \in 1..other.size |-> other.data[p]], null |-> FALSE,
     head |-> 0, tail |-> SizeDec(other.size), size |-> other.size,
     capacity |-> other.size]

CircularArrayCopy(other) ==
    [data |-> [p \in 1..other.size |-> At(other, p - 1)], null |-> FALSE,
     head |-> 0, tail |-> SizeDec(other.size), size |-> other.size,
     capacity |-> other.size]

(***************************************************************************)
(* Mutators                                                                *)
(***************************************************************************)
\* the copy loop without the head offset: new_array[i] = data_array_[i]
ExtandCopyIgnoringHead(a, cap) ==
    [p \in 1..(cap * 2) |->
        IF SizeLess(p - 1, a.size) THEN a.data[SizeMod(p - 1, cap) + 1]
        ELSE Uninit]

\* the copy loop of ExtandArray: new_array[i] = data_array_[(head_+i) % cap]
\* with cap the capacity after the `capacity_ = 1` adjustment
ExtandCopy(a, cap) ==
    [p \in 1..(cap * 2) |->
        IF SizeLess(p - 1, a.size)
        THEN a.data[SizeMod(a.head + (p - 1), cap) + 1]
        ELSE Uninit]

\* ExtandArray without the final `capacity_ *= 2`
ExtandArrayKeepingCapacity(a) ==
    LET cap == IF a.capacity = 0 THEN 1 ELSE a.capacity
    IN  [data |-> ExtandCopy(a, cap), null |-> FALSE, head |-> 0,
         tail |-> a.size, size |-> a.size, capacity |-> cap]

\* ExtandArray that grows by one slot instead of doubling
ExtandArrayByOne(a) ==
    LET cap == IF a.capacity = 0 THEN 1 ELSE a.capacity
    IN  [data |-> [p \in 1..(cap + 1) |-> ExtandCopy(a, cap)[p]],
         null |-> FALSE, head |-> 0, tail |-> a.size, size |-> a.size,
         capacity |-> cap + 1]

ExtandArray(a) ==
    LET cap == IF a.capacity = 0 THEN 1 ELSE a.capacity
    IN  [data |-> ExtandCopy(a, cap), null |-> FALSE, head |-> 0,
         tail |-> a.size, size |-> a.size, capacity |-> cap * 2]

\* `if (size_ == capacity_) ExtandArray();`
GrowIfFull(a) == IF a.size = a.capacity THEN ExtandArray(a) ELSE a

\* PushFront that stores before it moves head_
PushFrontStoreFirst(a, val) ==
    LET b == GrowIfFull(a)
        h == IF b.head = 0 THEN b.capacity - 1 ELSE b.head - 1
    IN  [b EXCEPT !.head = h, !.data = Store(b.data, b.head, val),
                  !.size = b.size + 1]

PushFront(a, val) ==
    LET b == GrowIfFull(a)
        h == IF b.head = 0 THEN b.capacity - 1 ELSE b.head - 1
    IN  [b EXCEPT !.head = h, !.data = Store(b.data, h, val),
                  !.size = b.size + 1]

PushBack(a, val) ==
    LET b == GrowIfFull(a)
    IN  [b EXCEPT !.data = Store(b.data, b.tail, val),
                  !.tail = SizeMod(b.tail + 1, b.capacity),
                  !.size = b.size + 1]

\* PopFront without the wrap: head_ = head_ + 1
PopFrontNoWrap(a) ==
    [a EXCEPT !.head = SizeInc(a.head), !.size = SizeDec(a.size)]

PopFront(a) ==
    [a EXCEPT !.head = SizeMod(a.head + 1, a.capacity),
              !.size = SizeDec(a.size)]

\* PopBack that decrements capacity_ instead of size_
PopBackShrinking(a) ==
    [a EXCEPT !.tail = IF a.tail = 0 THEN a.capacity - 1 ELSE a.tail - 1,
              !.capacity = a.capacity - 1]

PopBack(a) ==
    [a EXCEPT !.tail = IF a.tail = 0 THEN a.capacity - 1 ELSE a.tail - 1,
              !.size = a.size - 1]

\* the loop of InsertAt, from i down to pos + 1:
\*   data_array_[(head_ + i) % capacity_] = (*this)[i - 1]
RECURSIVE InsertShift(_, _, _)
InsertShift(b, i, pos) ==
    IF SizeLess(pos, i)
    THEN InsertShift([b EXCEPT !.data =
                         Store(b.data, SizeMod(b.head + i, b.capacity),
                               At(b, i - 1))],
                     i - 1, pos)
    ELSE b

\* InsertAt that stops the shift one element early: `i > _pos + 1`
InsertAtShortShift(a, val, pos) ==
    LET b == GrowIfFull(a)
        c == InsertShift(b, b.size, pos + 1)
        slot == SizeMod(c.head + pos, c.capacity)
    IN  [c EXCEPT !.data = Store(c.data, slot, val),
                  !.tail = SizeMod(c.tail + 1, c.capacity),
                  !.size = c.size + 1]

InsertAt(a, val, pos) ==
    LET b == GrowIfFull(a)
        c == InsertShift(b, b.size, pos)
        slot == SizeMod(c.head + pos, c.capacity)
    IN  [c EXCEPT !.data = Store(c.data, slot, val),
                  !.tail = SizeMod(c.tail + 1, c.capacity),
                  !.size = c.size + 1]

\* the loop of RemoveAt, from i up to size_ - 1:
\*   data_array_[(head_ + i) % capacity_] = (*this)[i + 1]
\* g is the value a read of an unassigned slot produces
RECURSIVE RemoveShift(_, _, _)
RemoveShift(b, i, g) ==
    IF SizeLess(i, b.size)
    THEN RemoveShift([b EXCEPT !.data =
                         Store(b.data, SizeMod(b.head + i, b.capacity),
                               Read(At(b, i + 1), g))],
                     i + 1, g)
    ELSE b

\* RemoveAt that starts the shift one element late: `i = _pos + 1`
RemoveAtLateShift(a, pos, g) == PopBack(RemoveShift(a, pos + 1, g))

\* RemoveAt that drops the first slot instead of the last: PopFront()
RemoveAtPopFront(a, pos, g) == PopFront(RemoveShift(a, pos, g))

RemoveAt(a, pos, g) == PopBack(RemoveShift(a, pos, g))

(***************************************************************************)
(* The logical sequence: operator[] at 0 .. size_ - 1                      *)
(***************************************************************************)
Logical(a) == [i \in 1..a.size |-> At(a, i - 1)]

(***************************************************************************)
(* The backing-store slots a call reads (physical indices), and the        *)
(* logical window [head_, head_ + size_) mod capacity_.                    *)
(***************************************************************************)
Window(a) == {SizeMod(a.head + i, a.capacity) : i \in 0..(a.size - 1)}

\* Front(): data_array_[head_]
FrontReads(a) == {a.head}

\* Back(): data_array_[tail_ != 0 ? tail_ - 1 : capacity_ - 1]
BackReads(a) == {IF a.tail # 0 THEN a.tail - 1 ELSE a.capacity - 1}

\* ExtandArray: data_array_[(head_ + i) % capacity_] for i < size_
ExtandReads(a) ==
    LET cap == IF a.capacity = 0 THEN 1 ELSE a.capacity
    IN  {SizeMod(a.head + i, cap) : i \in 0..(a.size - 1)}

\* InsertAt, after the growth: (*this)[i - 1] for i = size_ down to _pos + 1
InsertAtReads(b, pos) ==
    {SizeMod(b.head + (i - 1), b.capacity) : i \in (pos + 1)..b.size}

\* RemoveAt: (*this)[i + 1] for i = _pos up to size_ - 1, as logical indices
RemoveAtReadIndices(a, pos) == {i + 1 : i \in pos..(a.size - 1)}

\* RemoveAt: the slots of those logical indices
RemoveAtReads(a, pos) ==
    {SizeMod(a.head + j, a.capacity) : j \in RemoveAtReadIndices(a, pos)}

(***************************************************************************)
(* Heap and ownership.                                                     *)
(*   heap : the arrays allocated so far, heap[id] = [data, freed] with     *)
(*          freed the number of delete[] calls made on it                  *)
(*   an object is [state, made, ptr, head, tail, size, capacity]:          *)
(*          state  "unborn" | "live" | "dead"                              *)
(*          made   the constructor that made it                            *)
(*          ptr    data_array_: Null or the id of a store in heap          *)
(***************************************************************************)
Null == 0

\* new ValueType[n], holding `data`: the heap after it; the id is its length
New(h, data) == Append(h, [data |-> data, freed |-> 0])

\* delete [] data_array_
Delete(h, id) == [h EXCEPT ![id] = [data |-> <<>>, freed |-> @.freed + 1]]

\* the container record of object o: what its member functions see
View(h, o) ==
    [data |-> IF o.ptr = Null THEN <<>> ELSE h[o.ptr].data,
     null |-> o.ptr = Null, head |-> o.head, tail |-> o.tail,
     size |-> o.size, capacity |-> o.capacity]

\* the object holding store ptr with the members of container record r
Object(r, made, ptr) ==
    [state |-> "live", made |-> made, ptr |-> IF r.null THEN Null ELSE ptr,
     head |-> r.head, tail |-> r.tail, size |-> r.size,
     capacity |-> r.capacity]

Unborn ==
    [state |-> "unborn", made |-> "", ptr |-> Null, head |-> 0, tail |-> 0,
     size |-> 0, capacity |-> 0]

\* a constructor that allocates: data_array_ (new ValueType[...]), then the
\* members of r
Allocating(h, r, made) ==
    [heap |-> New(h, r.data), obj |-> Object(r, made, Len(h) + 1)]

\* an object after its destructor ran: its members are gone
Dead == [Unborn EXCEPT !.state = "dead"]

NoObjs == [a |-> Unborn, b |-> Unborn]

OwnDefault(h) ==
    [heap |-> h, obj |-> Object(CircularArrayDefault, "Default", Null)]

OwnSized(h, c) == Allocating(h, CircularArraySized(c), "Sized")

OwnFill(h, c, v) == Allocating(h, CircularArrayFill(c, v), "Fill")

\* a copy that takes over other's pointer (member-wise copy)
OwnCopySharing(h, other) ==
    [heap |-> h, obj |-> [other EXCEPT !.made = "Copy"]]

OwnCopy(h, other) == Allocating(h, CircularArrayCopy(View(h, other)), "Copy")

\* ~CircularArray: if (data_array_ != nullptr) delete [] data_array_
Destructor(h, o) == IF o.ptr # Null THEN Delete(h, o.ptr) ELSE h

\* ExtandArray's allocation that never deletes the old array
RegrowLeaking(h, o, data) == New(h, data)

\* ExtandArray's allocation: new_array = new ValueType[capacity_ * 2];
\* if (data_array_ != nullptr) delete [] data_array_; data_array_ = new_array
Regrow(h, o, data) ==
    New(IF o.ptr # Null THEN Delete(h, o.ptr) ELSE h, data)

\* The effect on heap and object of a mutator that took View(h, o) to r;
\* grew tells whether it called ExtandArray.
Commit(h, o, r, grew) ==
    IF grew
    THEN LET h2 == Regrow(h, o, r.data)
         IN  [heap |-> h2, obj |-> Object(r, o.made, Len(h2))]
    ELSE [heap |-> IF o.ptr = Null THEN h
                   ELSE [h EXCEPT ![o.ptr].data = r.data],
          obj |-> Object(r, o.made, o.ptr)]

\* (*this)[index] = val, through the reference operator[] returns
AssignAt(a, index, val) ==
    [a EXCEPT !.data = Store(a.data, SizeMod(a.head + index, a.capacity), val)]

(***************************************************************************)
(* History of the last call, kept for stating the contracts:               *)
(*   op, val, pos : the call and its arguments                             *)
(*   pre          : head_, size_, capacity_ before the call                *)
(*   before       : the logical sequence before an InsertAt (and, for a    *)
(*                  RemoveAt(pos) that directly follows InsertAt(v, pos),  *)
(*                  the logical sequence before that InsertAt)             *)
(*   undo         : the call is a RemoveAt(pos) directly after             *)
(*                  InsertAt(v, pos)                                       *)
(***************************************************************************)
Pre(a) == [head |-> a.head, size |-> a.size, capacity |-> a.capacity]

Call(name, a, val, pos) ==
    [op |-> name, val |-> val, pos |-> pos, pre |-> Pre(a),
     before |-> <<>>, undo |-> FALSE]

\* the address of the container under test, and the memory that holds it
ThisArr == "arr"

Mem == [p \in {ThisArr} |-> arr]

InitCaps == 0..MaxInitCap

(***************************************************************************)
(* Spec: one container, created by any constructor, under any sequence of  *)
(* calls made within their preconditions.                                  *)
(***************************************************************************)
Init ==
    /\ \/ /\ arr = CircularArrayDefault
          /\ last = Call("Default", CircularArrayDefault, 0, 0)
       \/ \E c \in InitCaps :
             /\ arr = CircularArraySized(c)
             /\ last = Call("Sized", CircularArraySized(c), 0, 0)
       \/ \E c \in InitCaps, v \in Values :
             /\ arr = CircularArrayFill(c, v)
             /\ last = Call("Fill", CircularArrayFill(c, v), v, 0)
    /\ pc = "free"
    /\ pushed = <<>>
    /\ popped = <<>>
    /\ heap = <<>>
    /\ objs = NoObjs

PushFrontCall ==
    /\ pc = "free"
    /\ arr.size < MaxSize
    /\ \E v \in Values :
          /\ arr' = PushFront(arr, v)
          /\ last' = Call("PushFront", arr, v, 0)
    /\ UNCHANGED <<pc, pushed, popped, heap, objs>>

PushBackCall ==
    /\ pc = "free"
    /\ arr.size < MaxSize
    /\ \E v \in Values :
          /\ arr' = PushBack(arr, v)
          /\ last' = Call("PushBack", arr, v, 0)
    /\ UNCHANGED <<pc, pushed, popped, heap, objs>>

PopFrontCall ==
    /\ pc = "free"
    /\ arr.size > 0
    /\ arr' = PopFront(arr)
    /\ last' = Call("PopFront", arr, 0, 0)
    /\ UNCHANGED <<pc, pushed, popped, heap, objs>>

PopBackCall ==
    /\ pc = "free"
    /\ arr.size > 0
    /\ arr' = PopBack(arr)
    /\ last' = Call("PopBack", arr, 0, 0)
    /\ UNCHANGED <<pc, pushed, popped, heap, objs>>

InsertAtCall ==
    /\ pc = "free"
    /\ arr.size < MaxSize
    /\ \E v \in Values, pos \in 0..arr.size :
          /\ arr' = InsertAt(arr, v, pos)
          /\ last' = [Call("InsertAt", arr, v, pos) EXCEPT
                         !.before = Logical(arr)]
    /\ UNCHANGED <<pc, pushed, popped, heap, objs>>

RemoveAtCall ==
    /\ pc = "free"
    /\ arr.size > 0
    /\ \E pos \in 0..(arr.size - 1), g \in Values :
          /\ arr' = RemoveAt(arr, pos, g)
          /\ last' = IF last.op = "InsertAt" /\ last.pos = pos
                     THEN [Call("RemoveAt", arr, 0, pos) EXCEPT
                              !.before = last.before, !.undo = TRUE]
                     ELSE Call("RemoveAt", arr, 0, pos)
    /\ UNCHANGED <<pc, pushed, popped, heap, objs>>

\* CircularArray b(a): the container under test is from now on the copy
CopyCall ==
    /\ pc = "free"
    /\ arr' = CircularArrayCopy(arr)
    /\ last' = Call("Copy", arr, 0, 0)
    /\ UNCHANGED <<pc, pushed, popped, heap, objs>>

Next ==
    \/ PushFrontCall
    \/ PushBackCall
    \/ PopFrontCall
    \/ PopBackCall
    \/ InsertAtCall
    \/ RemoveAtCall
    \/ CopyCall

Spec == Init /\ [][Next]_vars

(***************************************************************************)
(* SpecRoundTrip: an empty container (default or sized constructor) is     *)
(* pushed n times at one end, then read and popped at the other end until  *)
(* it is empty.  pushed records the values in push order, popped the       *)
(* values read by Front() / Back() in the order they were read.            *)
(***************************************************************************)
InitRoundTrip ==
    /\ \/ /\ arr = CircularArrayDefault
          /\ last = Call("Default", CircularArrayDefault, 0, 0)
       \/ \E c \in InitCaps :
             /\ arr = CircularArraySized(c)
             /\ last = Call("Sized", CircularArraySized(c), 0, 0)
    /\ pc \in {"pushBack", "pushFront"}
    /\ pushed = <<>>
    /\ popped = <<>>
    /\ heap = <<>>
    /\ objs = NoObjs

TripPushBack ==
    /\ pc = "pushBack"
    /\ Len(pushed) < MaxPush
    /\ \E v \in Values :
          /\ arr' = PushBack(arr, v)
          /\ last' = Call("PushBack", arr, v, 0)
          /\ pushed' = Append(pushed, v)
    /\ UNCHANGED <<pc, popped, heap, objs>>

TripPushFront ==
    /\ pc = "pushFront"
    /\ Len(pushed) < MaxPush
    /\ \E v \in Values :
          /\ arr' = PushFront(arr, v)
          /\ last' = Call("PushFront", arr, v, 0)
          /\ pushed' = Append(pushed, v)
    /\ UNCHANGED <<pc, popped, heap, objs>>

\* x = Front(); PopFront();
TripPopFront ==
    /\ pc \in {"pushBack", "popFront"}
    /\ ~Empty(arr)
    /\ popped' = Append(popped, Front(arr))
    /\ arr' = PopFront(arr)
    /\ last' = Call("PopFront", arr, 0, 0)
    /\ pc' = IF Empty(arr') THEN "done" ELSE "popFront"
    /\ UNCHANGED <<pushed, heap, objs>>

\* x = Back(); PopBack();
TripPopBack ==
    /\ pc \in {"pushFront", "popBack"}
    /\ ~Empty(arr)
    /\ popped' = Append(popped, Back(arr))
    /\ arr' = PopBack(arr)
    /\ last' = Call("PopBack", arr, 0, 0)
    /\ pc' = IF Empty(arr') THEN "done" ELSE "popBack"
    /\ UNCHANGED <<pushed, heap, objs>>

NextRoundTrip ==
    \/ TripPushBack
    \/ TripPushFront
    \/ TripPopFront
    \/ TripPopBack

SpecRoundTrip == InitRoundTrip /\ [][NextRoundTrip]_vars

(***************************************************************************)
(* SpecOwn: container a is made by the default, sized or fill constructor; *)
(* container b is then copy-constructed from a; both are mutated in any    *)
(* order (element writes through operator[] included) and each is          *)
(* destroyed once.  A program that move-constructs b from a is not         *)
(* translated: pc becomes "ill-formed" and no call follows.                *)
(***************************************************************************)
OwnCaps == 0..MaxOwnCap

Names == {"a", "b"}

OwnCall(name, who, val, pos) ==
    [op |-> name, who |-> who, val |-> val, pos |-> pos]

\* heap and objs after object x made a step that left [heap, obj]
Landed(x, res) ==
    /\ heap' = res.heap
    /\ objs' = [objs EXCEPT ![x] = res.obj]

InitOwn ==
    /\ \E made \in {OwnDefault(<<>>)}
                   \cup {OwnSized(<<>>, c) : c \in OwnCaps}
                   \cup {OwnFill(<<>>, c, v) : c \in OwnCaps, v \in Values} :
          /\ heap = made.heap
          /\ objs = [a |-> made.obj, b |-> Unborn]
          /\ last = OwnCall(made.obj.made, "a", 0, 0)
    /\ arr = CircularArrayDefault
    /\ pc = "own"
    /\ pushed = <<>>
    /\ popped = <<>>

\* CircularArray b(a);
OwnCopyCtor ==
    /\ pc = "own"
    /\ objs.a.state = "live"
    /\ objs.b.state = "unborn"
    /\ Landed("b", OwnCopy(heap, objs.a))
    /\ last' = OwnCall("Copy", "b", 0, 0)
    /\ UNCHANGED <<arr, pc, pushed, popped>>

\* CircularArray b(std::move(a)); selects the constructor
\* CircularArray(CircularArray const &&), whose body assigns to
\* data_array_, size_ and capacity_ of its const parameter: the compiler
\* rejects every program that makes the call.  No b is constructed, a is
\* not touched, and nothing of the program runs past this point.
OwnMoveCtor ==
    /\ pc = "own"
    /\ objs.a.state = "live"
    /\ objs.b.state = "unborn"
    /\ pc' = "ill-formed"
    /\ last' = OwnCall("Move", "b", 0, 0)
    /\ UNCHANGED <<arr, pushed, popped, heap, objs>>

OwnPushFront ==
    /\ pc = "own"
    /\ \E x \in Names, v \in Values :
          LET c == View(heap, objs[x])
          IN  /\ objs[x].state = "live"
              /\ c.size < MaxOwnSize
              /\ Landed(x, Commit(heap, objs[x], PushFront(c, v),
                                  c.size = c.capacity))
              /\ last' = OwnCall("PushFront", x, v, 0)
    /\ UNCHANGED <<arr, pc, pushed, popped>>

OwnPushBack ==
    /\ pc = "own"
    /\ \E x \in Names, v \in Values :
          LET c == View(heap, objs[x])
          IN  /\ objs[x].state = "live"
              /\ c.size < MaxOwnSize
              /\ Landed(x, Commit(heap, objs[x], PushBack(c, v),
                                  c.size = c.capacity))
              /\ last' = OwnCall("PushBack", x, v, 0)
    /\ UNCHANGED <<arr, pc, pushed, popped>>

OwnPopFront ==
    /\ pc = "own"
    /\ \E x \in Names :
          LET c == View(heap, objs[x])
          IN  /\ objs[x].state = "live"
              /\ c.size > 0
              /\ Landed(x, Commit(heap, objs[x], PopFront(c), FALSE))
              /\ last' = OwnCall("PopFront", x, 0, 0)
    /\ UNCHANGED <<arr, pc, pushed, popped>>

OwnPopBack ==
    /\ pc = "own"
    /\ \E x \in Names :
          LET c == View(heap, objs[x])
          IN  /\ objs[x].state = "live"
              /\ c.size > 0
              /\ Landed(x, Commit(heap, objs[x], PopBack(c), FALSE))
              /\ last' = OwnCall("PopBack", x, 0, 0)
    /\ UNCHANGED <<arr, pc, pushed, popped>>

OwnInsertAt ==
    /\ pc = "own"
    /\ \E x \in Names, v \in Values :
          LET c == View(heap, objs[x])
          IN  /\ objs[x].state = "live"
              /\ c.size < MaxOwnSize
              /\ \E pos \in 0..c.size :
                    /\ Landed(x, Commit(heap, objs[x], InsertAt(c, v, pos),
                                        c.size = c.capacity))
                    /\ last' = OwnCall("InsertAt", x, v, pos)
    /\ UNCHANGED <<arr, pc, pushed, popped>>

OwnRemoveAt ==
    /\ pc = "own"
    /\ \E x \in Names, g \in Values :
          LET c == View(heap, objs[x])
          IN  /\ objs[x].state = "live"
              /\ c.size > 0
              /\ \E pos \in 0..(c.size - 1) :
                    /\ Landed(x, Commit(heap, objs[x], RemoveAt(c, pos, g),
                                        FALSE))
                    /\ last' = OwnCall("RemoveAt", x, 0, pos)
    /\ UNCHANGED <<arr, pc, pushed, popped>>

\* x[index] = v;
OwnAssign ==
    /\ pc = "own"
    /\ \E x \in Names, v \in Values :
          LET c == View(heap, objs[x])
          IN  /\ objs[x].state = "live"
              /\ \E index \in 0..(c.size - 1) :
                    /\ Landed(x, Commit(heap, objs[x], AssignAt(c, index, v),
                                        FALSE))
                    /\ last' = OwnCall("Assign", x, v, index)
    /\ UNCHANGED <<arr, pc, pushed, popped>>

\* x goes out of scope
OwnDestroy ==
    /\ pc = "own"
    /\ \E x \in Names :
          /\ objs[x].state = "live"
          /\ heap' = Destructor(heap, objs[x])
          /\ objs' = [objs EXCEPT ![x] = Dead]
          /\ last' = OwnCall("Destroy", x, 0, 0)
    /\ UNCHANGED <<arr, pc, pushed, popped>>

NextOwn ==
    \/ OwnCopyCtor
    \/ OwnMoveCtor
    \/ OwnPushFront
    \/ OwnPushBack
    \/ OwnPopFront
    \/ OwnPopBack
    \/ OwnInsertAt
    \/ OwnRemoveAt
    \/ OwnAssign
    \/ OwnDestroy

SpecOwn == InitOwn /\ [][NextOwn]_vars

(***************************************************************************)
(* Contracts                                                               *)
(***************************************************************************)
Max(x, y) == IF x >= y THEN x ELSE y

RECURSIVE Reverse(_)
Reverse(s) == IF s = <<>> THEN <<>> ELSE Append(Reverse(Tail(s)), Head(s))

\* s with v put in front of its element at index pos (0-based)
Spliced(s, v, pos) ==
    SubSeq(s, 1, pos) \o <<v>> \o SubSeq(s, pos + 1, Len(s))

\* s without its element at index pos (0-based)
Without(s, pos) == SubSeq(s, 1, pos) \o SubSeq(s, pos + 2, Len(s))

Insertions == {"PushFront", "PushBack", "InsertAt"}

\* C1: PushBack(v) appends: size grows by one, the element at logical index
\* (new size - 1) is v, and every element that was at logical index i is
\* still at logical index i -- in every state reachable from any constructor.
C1_PushBackAppends ==
    [][last'.op = "PushBack" =>
          /\ Size(arr') = Size(arr) + 1
          /\ At(arr', Size(arr') - 1) = last'.val
          /\ \A i \in 0..(Size(arr) - 1) : At(arr', i) = At(arr, i)]_vars

\* C2: whenever size > 0, Back() is the element at logical index size - 1.
C2_BackIsLast == ~Empty(arr) => Back(arr) = At(arr, Size(arr) - 1)

\* C3: from an empty container, n PushBack followed by n rounds of Front()
\* and PopFront() reads the pushed values in push order and leaves the
\* container empty.
C3_FifoRoundTrip ==
    last.op = "PopFront" =>
        /\ popped = SubSeq(pushed, 1, Len(popped))
        /\ pc = "done" => (popped = pushed /\ Empty(arr))

C3_Witness ==
    /\ pc = "done"
    /\ last.op = "PopFront"
    /\ Len(pushed) >= 4
    /\ pushed[1] # pushed[2]
    /\ Capacity(arr) = 8

\* C4 as claimed: n PushFront followed by n rounds of Back() and PopBack()
\* reads the pushed values in the reverse of the push order.
C4_ReverseOrder ==
    (pc = "done" /\ last.op = "PopBack") => popped = Reverse(pushed)

\* C4 as amended: from an empty container made by the default or the sized
\* constructor (any initial capacity, 0 included), n PushFront followed by n
\* rounds of Back() and PopBack() reads the pushed values in the order they
\* were pushed (the first value pushed to the front is the last element)
\* and leaves the container empty.
C4_PushOrder ==
    last.op = "PopBack" =>
        /\ popped = SubSeq(pushed, 1, Len(popped))
        /\ pc = "done" => (popped = pushed /\ Empty(arr))

C4_Witness ==
    /\ pc = "done"
    /\ last.op = "PopBack"
    /\ Len(pushed) >= 4
    /\ pushed[1] # pushed[2]
    /\ Capacity(arr) = 8

\* C5: size <= capacity after every constructor and every call.
C5_SizeWithinCapacity == Size(arr) <= Capacity(arr)

C5_Witness ==
    /\ last.op \in Insertions
    /\ last.pre.size < last.pre.capacity
    /\ Size(arr) = Capacity(arr)
    /\ Size(arr) >= 2

\* C6: when PushBack(v) finds the container full, wherever head is, the
\* logical sequence afterwards is the prior logical sequence followed by v.
C6_GrowthKeepsSequence ==
    [][(last'.op = "PushBack" /\ Size(arr) = Capacity(arr)) =>
          Logical(arr') = Append(Logical(arr), last'.val)]_vars

\* a PushBack that grew a full container whose window wrapped
C6_Witness ==
    /\ last.op = "PushBack"
    /\ last.pre.size = last.pre.capacity
    /\ last.pre.size >= 3
    /\ last.pre.head > 0
    /\ Capacity(arr) = 2 * last.pre.capacity
    /\ Size(arr) = last.pre.size + 1
    /\ arr.head = 0

\* C7 as claimed: a growth sets the capacity to max(1, 2 x old capacity).
C7_GrowthMaxOneOrDouble ==
    [][(last'.op \in Insertions /\ Size(arr) = Capacity(arr)) =>
          Capacity(arr') = Max(1, 2 * Capacity(arr))]_vars

\* C7 as amended: a growth sets the capacity to 2 x max(1, old capacity):
\* the first insertion into a container of capacity 0 leaves capacity 2.
C7_GrowthDoubleOfMaxOne ==
    [][(last'.op \in Insertions /\ Size(arr) = Capacity(arr)) =>
          Capacity(arr') = 2 * Max(1, Capacity(arr))]_vars

\* an insertion that grew a container of capacity 0
C7_Witness ==
    /\ last.op \in Insertions
    /\ last.pre.size = last.pre.capacity
    /\ last.pre.capacity = 0
    /\ Capacity(arr) = 2

\* C8: InsertAt(v, pos) with 0 <= pos <= size yields
\* old[0..pos) ++ [v] ++ old[pos..size), with size one larger.
C8_InsertAtSplices ==
    [][last'.op = "InsertAt" =>
          /\ Logical(arr') = Spliced(Logical(arr), last'.val, last'.pos)
          /\ Size(arr') = Size(arr) + 1]_vars

\* an InsertAt in the middle of a window that wraps, without growth
C8_Witness ==
    /\ last.op = "InsertAt"
    /\ last.pos > 0
    /\ last.pos < last.pre.size
    /\ last.pre.size < last.pre.capacity
    /\ last.pre.head + last.pre.size > last.pre.capacity

\* C9: RemoveAt(pos) with 0 <= pos < size yields old[0..pos) ++
\* old[pos+1..size), with size one smaller and capacity and head unchanged.
C9_RemoveAtCloses ==
    [][last'.op = "RemoveAt" =>
          /\ Logical(arr') = Without(Logical(arr), last'.pos)
          /\ Size(arr') = Size(arr) - 1
          /\ Capacity(arr') = Capacity(arr)
          /\ arr'.head = arr.head]_vars

\* a RemoveAt before the last element of a full container whose window wraps
C9_Witness ==
    /\ last.op = "RemoveAt"
    /\ last.pre.size = last.pre.capacity
    /\ last.pre.head > 0
    /\ last.pre.size >= 3
    /\ last.pos < last.pre.size - 1

\* C10: InsertAt(v, pos) directly followed by RemoveAt(pos) restores the
\* logical sequence and the size from before the InsertAt.
C10_InsertRemoveRestores ==
    last.undo => (Logical(arr) = last.before /\ Size(arr) = Len(last.before))

\* the round trip in the middle of a window that wraps
C10_Witness ==
    /\ last.undo
    /\ Len(last.before) >= 3
    /\ last.before[1] # last.before[2]
    /\ last.pos > 0
    /\ last.pos < Len(last.before)
    /\ last.pre.head + last.pre.size > last.pre.capacity

SixMutators ==
    {"PushFront", "PushBack", "PopFront", "PopBack", "InsertAt", "RemoveAt"}

\* C11: copy construction from any reachable state gives a container with
\* the source's logical sequence, head 0, and size and capacity both equal
\* to the source's size.
C11_CopyIsTight ==
    [][last'.op = "Copy" =>
          /\ Logical(arr') = Logical(arr)
          /\ arr'.head = 0
          /\ Size(arr') = Size(arr)
          /\ Capacity(arr') = Size(arr)]_vars

\* a copy of a source whose window wraps and whose capacity exceeds its size
C11_Witness ==
    /\ last.op = "Copy"
    /\ last.pre.head > 0
    /\ last.pre.head + last.pre.size > last.pre.capacity
    /\ last.pre.capacity > last.pre.size
    /\ Size(arr) >= 2
    /\ At(arr, 0) # At(arr, 1)
    /\ Capacity(arr) = last.pre.size

\* C14: across PushFront, PushBack, PopFront, PopBack, InsertAt and RemoveAt
\* the capacity never decreases, and pops and removals leave it unchanged.
C14_CapacityNeverShrinks ==
    [][last'.op \in SixMutators =>
          /\ Capacity(arr') >= Capacity(arr)
          /\ last'.op \in {"PopFront", "PopBack", "RemoveAt"} =>
                Capacity(arr') = Capacity(arr)]_vars

\* a container emptied by a pop or a removal that keeps a capacity of 4 or more
C14_Witness ==
    /\ last.op \in {"PopFront", "PopBack", "RemoveAt"}
    /\ Empty(arr)
    /\ Capacity(arr) >= 4
    /\ Capacity(arr) = last.pre.capacity

\* C15: a cursor started at begin() and pre-incremented until it equals
\* end() takes exactly Size() steps and dereferences at step i to
\* operator[](i); begin() == end() exactly when the container is empty.
C15_CursorMatchesIndexing ==
    LET w == Walk(Mem, Begin(ThisArr), End(Mem, ThisArr), <<>>)
    IN  /\ Len(w) = Size(arr)
        /\ \A i \in 0..(Size(arr) - 1) : w[i + 1] = At(arr, i)
        /\ IterEq(Begin(ThisArr), End(Mem, ThisArr)) <=> Empty(arr)

\* a walk over a wrapped window of three or more elements after a removal
C15_Witness ==
    /\ last.op = "RemoveAt"
    /\ Size(arr) >= 3
    /\ arr.head + Size(arr) > Capacity(arr)
    /\ At(arr, 0) # At(arr, 1)
    /\ Len(Walk(Mem, Begin(ThisArr), End(Mem, ThisArr), <<>>)) = Size(arr)

\* C17: whenever capacity > 0, tail == (head + size) mod capacity.
C17_TailInvariant ==
    Capacity(arr) > 0 => arr.tail = (arr.head + Size(arr)) % Capacity(arr)

\* C18: PushFront(v) prepends: size grows by one, the element at logical
\* index 0 is v, and the element that was at index i is at index i + 1.
C18_PushFrontPrepends ==
    [][last'.op = "PushFront" =>
          /\ Size(arr') = Size(arr) + 1
          /\ At(arr', 0) = last'.val
          /\ \A i \in 0..(Size(arr) - 1) : At(arr', i + 1) = At(arr, i)]_vars

\* a PushFront at head 0 without growth: head wraps to capacity - 1
C18_Witness ==
    /\ last.op = "PushFront"
    /\ last.pre.head = 0
    /\ last.pre.size >= 1
    /\ last.pre.size < last.pre.capacity
    /\ arr.head = Capacity(arr) - 1
    /\ At(arr, 0) # At(arr, 1)

\* C19: whenever capacity > 0, head < capacity.
C19_HeadWithinCapacity == Capacity(arr) > 0 => arr.head < Capacity(arr)

\* a PopFront at head == capacity - 1: head wraps to 0
C19_Witness ==
    /\ last.op = "PopFront"
    /\ last.pre.capacity >= 2
    /\ last.pre.head = last.pre.capacity - 1
    /\ arr.head = 0

\* C20: no call made within its precondition reads a slot outside the
\* logical window as it stands at the time of the read; in particular the
\* slots RemoveAt(pos) reads are slots of the window.
C20_ReadsInsideWindow ==
    [][/\ ~Empty(arr) => (FrontReads(arr) \cup BackReads(arr)) \subseteq
                             Window(arr)
       /\ (last'.op \in Insertions /\ Size(arr) = Capacity(arr)) =>
             ExtandReads(arr) \subseteq Window(arr)
       /\ last'.op = "InsertAt" =>
             InsertAtReads(GrowIfFull(arr), last'.pos) \subseteq
                 Window(GrowIfFull(arr))
       /\ last'.op = "RemoveAt" =>
             RemoveAtReads(arr, last'.pos) \subseteq Window(arr)]_vars

(***************************************************************************)
(* Contracts of ownership (SpecOwn)                                        *)
(***************************************************************************)
Other(x) == IF x = "a" THEN "b" ELSE "a"

\* what a caller can observe of object o: its logical sequence, Size() and
\* Capacity()
Observed(h, o) ==
    [seq |-> Logical(View(h, o)), size |-> o.size, capacity |-> o.capacity]

OwnMutators == SixMutators \cup {"Assign"}

\* the ids of the stores the live objects hold
Held(os) == {os[x].ptr : x \in {y \in Names : os[y].state = "live"}} \ {Null}

\* C12: after copy construction, a mutating call (push, pop, insert, remove,
\* element write) on the copy leaves the original's logical sequence, size
\* and capacity unchanged, and one on the original leaves the copy's
\* unchanged.
C12_CopyIndependence ==
    [][(/\ last'.op \in OwnMutators
        /\ objs.b.made = "Copy"
        /\ objs[Other(last'.who)].state = "live") =>
          Observed(heap', objs'[Other(last'.who)]) =
              Observed(heap, objs[Other(last'.who)])]_vars

\* the copy was written to while the original holds an element, and the two
\* now differ
C12_Witness ==
    /\ last.op \in {"Assign", "PushFront", "PushBack", "InsertAt"}
    /\ last.who = "b"
    /\ objs.b.made = "Copy"
    /\ objs.a.state = "live"
    /\ objs.a.size = 1
    /\ objs.b.size = 1
    /\ Logical(View(heap, objs.a)) # Logical(View(heap, objs.b))

\* C13: after move construction the destination exists and has the
\* source's prior logical sequence, size and capacity, and the source has
\* size 0, capacity 0 and no backing store (its destructor releases
\* nothing).
C13_MoveEmptiesSource ==
    [][last'.op = "Move" =>
          /\ objs'.b.state = "live"
          /\ objs'.a.size = 0
          /\ objs'.a.capacity = 0
          /\ objs'.a.ptr = Null
          /\ Destructor(heap', objs'.a) = heap'
          /\ Observed(heap', objs'.b) = Observed(heap, objs.a)]_vars

\* C16: every allocated backing store is released exactly once and no two
\* live containers hold the same store: no store is deleted twice, the
\* stores not yet deleted are exactly those the live containers hold, and
\* two live containers never hold the same one.
C16_ExclusiveOwnership ==
    /\ \A id \in DOMAIN heap : heap[id].freed <= 1
    /\ {id \in DOMAIN heap : heap[id].freed = 0} = Held(objs)
    /\ (objs.a.state = "live" /\ objs.b.state = "live"
        /\ objs.a.ptr # Null) => objs.a.ptr # objs.b.ptr

\* both containers destroyed after a copy and growths: three or more stores
\* were allocated and each was deleted once
C16_Witness ==
    /\ objs.a.state = "dead"
    /\ objs.b.state = "dead"
    /\ Len(heap) >= 3
    /\ \A id \in DOMAIN heap : heap[id].freed = 1

====
